---- MODULE Spec2Model ----
(***************************************************************************)
(* Model of the coordinator in src/src/App.jsx (Transpile Box): the task   *)
(* registry (React state `files`), the dispatch queue (queueRef), the      *)
(* worker slot table (workersRef), the progress counters, and the event    *)
(* handlers that mutate them.  One action per event handler; a handler     *)
(* runs to completion (the browser's event loop is single threaded).       *)
(*                                                                         *)
(* React state is kept twice: the variables files / isProcessing hold the  *)
(* value obtained by applying every queued updater in order, `view` holds  *)
(* what the last committed render showed, which is what handler closures   *)
(* (handleConvert's `files`) and the conditional buttons read.  Updates    *)
(* made in a click handler are committed at the end of that handler;       *)
(* updates made in FileReader.onload and Worker.onmessage are committed    *)
(* by a later render task (action Render).                                 *)
(*                                                                         *)
(* Task ids (Date.now() + random suffix, line 202) are modelled as fresh   *)
(* naturals; file texts are not modelled, a queue entry is its task id.    *)
(* File names and paths are sequences of one-character strings.  The user's *)
(* future selections are the sequence `offer`; reads complete in the order  *)
(* they were started, timers of equal delay fire in the order they were     *)
(* set.                                                                     *)
(***************************************************************************)
EXTENDS Integers, Sequences, FiniteSets, TLC

\* ---- bounds ----
MaxIds == 3        \* task records created over a behaviour
MaxPool == 2       \* largest navigator.hardwareConcurrency tried
MaxNameLen == 6    \* longest file name tried by IntakeSpec
MaxSel == 46       \* largest selection tried by ChunkSpec

\* ---- values ----
NoId == 0                          \* currentId of a slot holding no task (undefined / null)
Null == "<null>"                   \* JS null in a record's content / error field
Undefined == "<undefined>"         \* field absent from a worker message
Contents == {"", "js"}             \* transformed texts a worker may return
Errors == {"", "Unexpected token"} \* error descriptions a worker may return

VARIABLES
    files,          \* useState files: sequence of task records
    isProcessing,   \* useState isProcessing
    progress,       \* useState progress: [current, total]
    activeWorkers,  \* useState activeWorkers
    workers,        \* workersRef.current: sequence of [busy, currentId]
    queue,          \* queueRef.current: sequence of task ids
    jobs,           \* tasks posted to a Worker whose result has not arrived
    reading,        \* items whose FileReader read is started and not yet loaded
    offer,          \* items the user has yet to select, in selection order
    timers,         \* pending setTimeout(readNextChunk, 50): [validFiles, readIndex]
    out,            \* what the last handler showed / saved: [toast, saved, zip]
    jszip,          \* window.JSZip is defined (the CDN script has loaded)
    nextId,         \* next fresh task id
    concurrency,    \* navigator.hardwareConcurrency || 4
    view,           \* last committed render: [files, isProcessing]
    enq,            \* history: ids pushed on the queue since the last reset
    posted,         \* history: ids posted to a worker since the last reset
    done,           \* history: ids whose record reached complete since the last reset
    last            \* history: the last handler that ran, [op, id]

vars == <<files, isProcessing, progress, activeWorkers, workers, queue, jobs,
          reading, offer, timers, out, jszip, nextId, concurrency, view, enq, posted, done, last>>

\* ---- helpers over sequences ----
Range(s) == {s[i] : i \in 1..Len(s)}

Ids(fs) == [i \in 1..Len(fs) |-> fs[i].id]

IdleOf(fs) == SelectSeq(fs, LAMBDA f : f.status = "idle")

\* ---- strings: sequences of one-character strings ----

\* String.prototype.endsWith, and the regular expression /suf$/.
EndsWith(s, suf) ==
    /\ Len(suf) <= Len(s)
    /\ SubSeq(s, Len(s) - Len(suf) + 1, Len(s)) = suf

\* The positions at which sub occurs in s.
Occurrences(s, sub) ==
    {i \in 1..(Len(s) - Len(sub) + 1) : SubSeq(s, i, i + Len(sub) - 1) = sub}

\* String.prototype.includes.
Includes(s, sub) == Occurrences(s, sub) # {}

\* String.prototype.replace with a string pattern: the first occurrence only.
ReplaceFirst(s, pat, by) ==
    IF ~Includes(s, pat) THEN s
    ELSE LET i == CHOOSE k \in Occurrences(s, pat) :
                      \A m \in Occurrences(s, pat) : k <= m
         IN SubSeq(s, 1, i - 1) \o by \o SubSeq(s, i + Len(pat), Len(s))

\* String.prototype.replace with the anchored pattern /pat$/.
ReplaceEnd(s, pat, by) ==
    IF EndsWith(s, pat) THEN SubSeq(s, 1, Len(s) - Len(pat)) \o by ELSE s

\* The part of a path after its last "/".
LastSegment(p) ==
    LET slashes == {i \in 1..Len(p) : p[i] = "/"}
    IN IF slashes = {} THEN p
       ELSE SubSeq(p, (CHOOSE i \in slashes : \A k \in slashes : k <= i) + 1, Len(p))

DotTs == <<".", "t", "s">>
DotTsx == <<".", "t", "s", "x">>
DotJsx == <<".", "j", "s", "x">>
DotJs == <<".", "j", "s">>
DotDTs == <<".", "d", ".", "t", "s">>

\* JavaScript truthiness of a text-or-null field (content, error).
Truthy(v) == v \notin {Null, Undefined, ""}

\* The coordinator's state as one record, so that handlers are functions.
Cur == [files |-> files, isProcessing |-> isProcessing, progress |-> progress,
        activeWorkers |-> activeWorkers, workers |-> workers, queue |-> queue,
        jobs |-> jobs, enq |-> enq, posted |-> posted]

Install(st) ==
    /\ files' = st.files
    /\ isProcessing' = st.isProcessing
    /\ progress' = st.progress
    /\ activeWorkers' = st.activeWorkers
    /\ workers' = st.workers
    /\ queue' = st.queue
    /\ jobs' = st.jobs
    /\ enq' = st.enq
    /\ posted' = st.posted

\* What a render commits.
Shown(st) == [files |-> st.files, isProcessing |-> st.isProcessing]

\* The state a synchronous (click) render starts from: the refs as they are,
\* the React state as last committed.
OnView == [Cur EXCEPT !.files = view.files, !.isProcessing = view.isProcessing]

\* ---- worker pool (lines 90-108) ----

FreshPool(n) == [i \in 1..n |-> [busy |-> FALSE, currentId |-> NoId]]

\* initWorkers: no-op when a pool exists, else `concurrency` free slots.
initWorkers(st) ==
    IF Len(st.workers) > 0 THEN st
    ELSE [st EXCEPT !.workers = FreshPool(concurrency)]

\* terminateWorkers dropping the slot table without calling terminate().
terminateWorkersNoTerminate(st) ==
    [st EXCEPT !.workers = <<>>, !.activeWorkers = 0]

\* terminateWorkers: Worker.terminate() on every slot's worker (a terminated
\* worker's pending messages are discarded by the platform), empty slot
\* table, activeWorkers 0.
terminateWorkers(st) ==
    [st EXCEPT !.jobs = {[j EXCEPT !.terminated = TRUE] : j \in st.jobs},
               !.workers = <<>>,
               !.activeWorkers = 0]

\* ---- scheduler (lines 139-163) ----

AllFree(ws) == \A i \in 1..Len(ws) : ~ws[i].busy

\* workersRef.current.find(w => !w.busy): index of the first free slot, 0 if none
FindFree(ws) ==
    IF \E i \in 1..Len(ws) : ~ws[i].busy
    THEN CHOOSE i \in 1..Len(ws) :
            /\ ~ws[i].busy
            /\ \A k \in 1..(i - 1) : ws[k].busy
    ELSE 0

\* find(w => w.busy && w.currentId === id): first busy slot holding id, 0 if none
FindHolder(ws, id) ==
    IF \E i \in 1..Len(ws) : ws[i].busy /\ ws[i].currentId = id
    THEN CHOOSE i \in 1..Len(ws) :
            /\ ws[i].busy /\ ws[i].currentId = id
            /\ \A k \in 1..(i - 1) : ~(ws[k].busy /\ ws[k].currentId = id)
    ELSE 0

NewJob(id) == [id |-> id, stale |-> FALSE, terminated |-> FALSE]

\* processQueue reading the queue head without removing it.
RECURSIVE processQueueNoShift(_)
processQueueNoShift(st) ==
    IF Len(st.queue) = 0
    THEN IF AllFree(st.workers) THEN [st EXCEPT !.isProcessing = FALSE] ELSE st
    ELSE LET i == FindFree(st.workers) IN
         IF i = 0 THEN st
         ELSE LET task == Head(st.queue) IN
              processQueueNoShift([st EXCEPT
                  !.workers[i] = [busy |-> TRUE, currentId |-> task],
                  !.activeWorkers = @ + 1,
                  !.jobs = @ \cup {NewJob(task)},
                  !.posted = Append(@, task)])

\* processQueue taking the newest entry (pop) instead of the oldest (shift).
RECURSIVE processQueuePop(_)
processQueuePop(st) ==
    IF Len(st.queue) = 0
    THEN IF AllFree(st.workers) THEN [st EXCEPT !.isProcessing = FALSE] ELSE st
    ELSE LET i == FindFree(st.workers) IN
         IF i = 0 THEN st
         ELSE LET task == st.queue[Len(st.queue)] IN
              processQueuePop([st EXCEPT
                  !.queue = SubSeq(st.queue, 1, Len(st.queue) - 1),
                  !.workers[i] = [busy |-> TRUE, currentId |-> task],
                  !.activeWorkers = @ + 1,
                  !.jobs = @ \cup {NewJob(task)},
                  !.posted = Append(@, task)])

RECURSIVE processQueue(_)
processQueue(st) ==
    IF Len(st.queue) = 0
    THEN IF AllFree(st.workers) THEN [st EXCEPT !.isProcessing = FALSE] ELSE st
    ELSE LET i == FindFree(st.workers) IN
         IF i = 0 THEN st
         ELSE LET task == Head(st.queue) IN
              processQueue([st EXCEPT
                  !.queue = Tail(st.queue),
                  !.workers[i] = [busy |-> TRUE, currentId |-> task],
                  !.activeWorkers = @ + 1,
                  !.jobs = @ \cup {NewJob(task)},
                  !.posted = Append(@, task)])

\* ---- completion (lines 112-137) ----

\* A worker's message (lines 37, 40): the field of the other outcome is absent.
Success(id, c) == [id |-> id, success |-> TRUE, content |-> c, error |-> Undefined]
Failure(id, e) == [id |-> id, success |-> FALSE, content |-> Undefined, error |-> e]
Messages(id) == {Success(id, c) : c \in Contents} \cup {Failure(id, e) : e \in Errors}

\* The completed record with the error field always cleared.
CompletedNoError(f, m) ==
    [f EXCEPT !.content = IF m.success THEN m.content ELSE Null,
              !.error = Null,
              !.status = "complete"]

Completed(f, m) ==
    [f EXCEPT !.content = IF m.success THEN m.content ELSE Null,
              !.error = IF m.success THEN Null ELSE m.error,
              !.status = "complete"]

\* handleWorkerMessage matching by arrival position: the result goes to the
\* first pending record and frees the first busy slot.
handleWorkerMessageByPosition(st, m) ==
    LET pend == {i \in 1..Len(st.files) : st.files[i].status = "pending"}
        first == IF pend = {} THEN 0
                 ELSE CHOOSE i \in pend : \A k \in pend : i <= k
        fs == [i \in 1..Len(st.files) |->
                  IF i = first THEN Completed(st.files[i], m) ELSE st.files[i]]
        busy == {i \in 1..Len(st.workers) : st.workers[i].busy}
        h == IF busy = {} THEN 0 ELSE CHOOSE i \in busy : \A k \in busy : i <= k
        s1 == [st EXCEPT !.files = fs]
        s2 == IF h # 0
              THEN [s1 EXCEPT !.workers[h] = [busy |-> FALSE, currentId |-> NoId],
                              !.activeWorkers = @ - 1]
              ELSE s1
        s3 == [s2 EXCEPT !.progress.current = @ + 1]
    IN processQueue(s3)

\* handleWorkerMessage without the trailing processQueue() call.
handleWorkerMessageNoResched(st, m) ==
    LET fs == [i \in 1..Len(st.files) |->
                  IF st.files[i].id = m.id THEN Completed(st.files[i], m)
                  ELSE st.files[i]]
        h == FindHolder(st.workers, m.id)
        s1 == [st EXCEPT !.files = fs]
        s2 == IF h # 0
              THEN [s1 EXCEPT !.workers[h] = [busy |-> FALSE, currentId |-> NoId],
                              !.activeWorkers = @ - 1]
              ELSE s1
    IN [s2 EXCEPT !.progress.current = @ + 1]

\* handleWorkerMessage putting a failed task back on the queue (automatic retry).
handleWorkerMessageRetry(st, m) ==
    LET fs == [i \in 1..Len(st.files) |->
                  IF st.files[i].id = m.id THEN Completed(st.files[i], m)
                  ELSE st.files[i]]
        h == FindHolder(st.workers, m.id)
        s1 == [st EXCEPT !.files = fs]
        s2 == IF h # 0
              THEN [s1 EXCEPT !.workers[h] = [busy |-> FALSE, currentId |-> NoId],
                              !.activeWorkers = @ - 1]
              ELSE s1
        s3 == [s2 EXCEPT !.progress.current = @ + 1]
        s4 == IF m.success THEN s3 ELSE [s3 EXCEPT !.queue = Append(@, m.id)]
    IN processQueue(s4)

\* handleWorkerMessage letting idle records join the run (enqueue on completion).
handleWorkerMessageAutoJoin(st, m) ==
    LET fs == [i \in 1..Len(st.files) |->
                  IF st.files[i].id = m.id THEN Completed(st.files[i], m)
                  ELSE st.files[i]]
        h == FindHolder(st.workers, m.id)
        s1 == [st EXCEPT !.files = fs]
        s2 == IF h # 0
              THEN [s1 EXCEPT !.workers[h] = [busy |-> FALSE, currentId |-> NoId],
                              !.activeWorkers = @ - 1]
              ELSE s1
        s3 == [s2 EXCEPT !.progress.current = @ + 1]
        s4 == [s3 EXCEPT !.queue = @ \o Ids(IdleOf(s3.files)),
                         !.enq = @ \o Ids(IdleOf(s3.files)),
                         !.progress.total = @ + Len(IdleOf(s3.files)),
                         !.files = [i \in 1..Len(s3.files) |->
                                       IF s3.files[i].status = "idle"
                                       THEN [s3.files[i] EXCEPT !.status = "pending"]
                                       ELSE s3.files[i]]]
    IN processQueue(s4)

handleWorkerMessage(st, m) ==
    LET fs == [i \in 1..Len(st.files) |->
                  IF st.files[i].id = m.id THEN Completed(st.files[i], m)
                  ELSE st.files[i]]
        h == FindHolder(st.workers, m.id)
        s1 == [st EXCEPT !.files = fs]
        s2 == IF h # 0
              THEN [s1 EXCEPT !.workers[h] = [busy |-> FALSE, currentId |-> NoId],
                              !.activeWorkers = @ - 1]
              ELSE s1
        s3 == [s2 EXCEPT !.progress.current = @ + 1]
    IN processQueue(s3)

\* ---- start (lines 229-254) ----

\* handleConvert adding files.length, not idleFiles.length, to the total.
handleConvertTotalAll(st, snapshot) ==
    LET idleFiles == IdleOf(snapshot) IN
    IF Len(idleFiles) = 0 THEN st
    ELSE LET s1 == [st EXCEPT
                 !.isProcessing = TRUE,
                 !.progress.total = @ + Len(snapshot),
                 !.queue = @ \o Ids(idleFiles),
                 !.enq = @ \o Ids(idleFiles),
                 !.files = [i \in 1..Len(st.files) |->
                               IF st.files[i].status = "idle"
                               THEN [st.files[i] EXCEPT !.status = "pending"]
                               ELSE st.files[i]]]
         IN processQueue(s1)

\* handleConvert marking every record pending, not only the idle ones.
handleConvertAllPending(st, snapshot) ==
    LET idleFiles == IdleOf(snapshot) IN
    IF Len(idleFiles) = 0 THEN st
    ELSE LET s1 == [st EXCEPT
                 !.isProcessing = TRUE,
                 !.progress.total = @ + Len(idleFiles),
                 !.queue = @ \o Ids(idleFiles),
                 !.enq = @ \o Ids(idleFiles),
                 !.files = [i \in 1..Len(st.files) |->
                               [st.files[i] EXCEPT !.status = "pending"]]]
         IN processQueue(s1)

\* `snapshot` is the `files` of the render whose closure runs.
handleConvert(st, snapshot) ==
    LET idleFiles == IdleOf(snapshot) IN
    IF Len(idleFiles) = 0 THEN st
    ELSE LET s1 == [st EXCEPT
                 !.isProcessing = TRUE,
                 !.progress.total = @ + Len(idleFiles),
                 !.queue = @ \o Ids(idleFiles),
                 !.enq = @ \o Ids(idleFiles),
                 !.files = [i \in 1..Len(st.files) |->
                               IF st.files[i].status = "idle"
                               THEN [st.files[i] EXCEPT !.status = "pending"]
                               ELSE st.files[i]]]
         IN processQueue(s1)

\* ---- reset and remove (lines 281-293) ----

\* handleClear without the setProgress({ current: 0, total: 0 }) call.
handleClearKeepProgress(st) ==
    LET s1 == [st EXCEPT !.queue = <<>>,
                         !.jobs = {[j EXCEPT !.stale = TRUE] : j \in st.jobs},
                         !.enq = <<>>, !.posted = <<>>]
        s2 == initWorkers(terminateWorkers(s1))
    IN [s2 EXCEPT !.files = <<>>, !.isProcessing = FALSE]

\* handleClear without the initWorkers() restart.
handleClearNoInit(st) ==
    LET s1 == [st EXCEPT !.queue = <<>>,
                         !.jobs = {[j EXCEPT !.stale = TRUE] : j \in st.jobs},
                         !.enq = <<>>, !.posted = <<>>]
        s2 == terminateWorkers(s1)
    IN [s2 EXCEPT !.files = <<>>,
                  !.progress = [current |-> 0, total |-> 0],
                  !.isProcessing = FALSE]

handleClear(st) ==
    LET s1 == [st EXCEPT !.queue = <<>>,
                         !.jobs = {[j EXCEPT !.stale = TRUE] : j \in st.jobs},
                         !.enq = <<>>, !.posted = <<>>]
        s2 == initWorkers(terminateWorkers(s1))
    IN [s2 EXCEPT !.files = <<>>,
                  !.progress = [current |-> 0, total |-> 0],
                  !.isProcessing = FALSE]

removeFile(st, id) ==
    [st EXCEPT !.files = SelectSeq(st.files, LAMBDA f : f.id # id)]

\* ---- intake (lines 167-227), one record per completed read ----

\* A File of a selection: its name and its webkitRelativePath (empty unless
\* the file comes from a directory selection).
Item(dir, name) ==
    [name |-> name, webkitRelativePath |-> IF dir = <<>> THEN <<>> ELSE dir \o name]

\* f.name.match(/\.(ts|tsx|jsx|js)$/)
MatchesExt(name) ==
    \/ EndsWith(name, DotTs)
    \/ EndsWith(name, DotTsx)
    \/ EndsWith(name, DotJsx)
    \/ EndsWith(name, DotJs)

\* The filter of lines 173-175.
validFiles(fileList) ==
    SelectSeq(fileList, LAMBDA f : MatchesExt(f.name) /\ ~Includes(f.name, DotDTs))

\* file.webkitRelativePath || file.name
PathOf(file) ==
    IF file.webkitRelativePath # <<>> THEN file.webkitRelativePath ELSE file.name

\* newName of lines 195-200.
NewNameOf(file) ==
    IF EndsWith(file.name, DotTs) THEN ReplaceFirst(file.name, DotTs, DotJs)
    ELSE IF EndsWith(file.name, DotTsx) THEN ReplaceFirst(file.name, DotTsx, DotJs)
    ELSE IF EndsWith(file.name, DotJsx) THEN ReplaceFirst(file.name, DotJsx, DotJs)
    ELSE file.name

\* newPath of lines 195-200.
NewPathOf(file) ==
    IF EndsWith(file.name, DotTs) THEN ReplaceEnd(PathOf(file), DotTs, DotJs)
    ELSE IF EndsWith(file.name, DotTsx) THEN ReplaceEnd(PathOf(file), DotTsx, DotJs)
    ELSE IF EndsWith(file.name, DotJsx) THEN ReplaceEnd(PathOf(file), DotJsx, DotJs)
    ELSE PathOf(file)

CHUNK_SIZE == 20

\* Array.prototype.slice(from, to), indices from 0, `to` excluded.
Slice(s, from, to) == SubSeq(s, from + 1, IF to < Len(s) THEN to ELSE Len(s))

\* readNextChunk taking one item fewer than CHUNK_SIZE.
ChunkOfShort(valid, readIndex) == Slice(valid, readIndex, readIndex + CHUNK_SIZE - 1)

\* readNextChunk: the files whose reads this call starts.
ChunkOf(valid, readIndex) == Slice(valid, readIndex, readIndex + CHUNK_SIZE)

\* readNextChunk: the timer this call sets (readIndex += CHUNK_SIZE; if
\* readIndex < validFiles.length, setTimeout(readNextChunk, 50)).
TimerAfter(valid, readIndex) ==
    IF readIndex + CHUNK_SIZE < Len(valid)
    THEN <<[validFiles |-> valid, readIndex |-> readIndex + CHUNK_SIZE]>>
    ELSE <<>>

NewRecord(id, file) ==
    [id |-> id,
     originalName |-> file.name,
     newName |-> NewNameOf(file),
     originalPath |-> PathOf(file),
     newPath |-> NewPathOf(file),
     content |-> Null, status |-> "idle", error |-> Null]

\* ---- export (lines 258-279) ----

NoToast == "<none>"
NoOut == [toast |-> NoToast, saved |-> FALSE, zip |-> {}]

\* zip.file(path, content): an entry of the same path is replaced.
ZipFile(zip, path, content) ==
    {e \in zip : e.path # path} \cup {[path |-> path, content |-> content]}

RECURSIVE ZipAll(_, _)
ZipAll(zip, fs) ==
    IF fs = <<>> THEN zip
    ELSE ZipAll(ZipFile(zip, Head(fs).newPath, Head(fs).content), Tail(fs))

\* The records handleDownloadZip adds.
Zippable(fs) == SelectSeq(fs, LAMBDA f : ~Truthy(f.error) /\ Truthy(f.content))

\* handleDownloadZip without the addedCount === 0 return.
handleDownloadZipNoCount(snapshot, lib) ==
    IF ~lib THEN NoOut
    ELSE [toast |-> "Download started!", saved |-> TRUE,
          zip |-> ZipAll({}, Zippable(snapshot))]

\* handleDownloadZip on the rendered registry; the result is the toast shown
\* and the archive handed to saveAs.
handleDownloadZip(snapshot, lib) ==
    IF ~lib THEN NoOut
    ELSE IF Len(Zippable(snapshot)) = 0
         THEN [toast |-> "No valid files to zip", saved |-> FALSE, zip |-> {}]
         ELSE [toast |-> "Download started!", saved |-> TRUE,
               zip |-> ZipAll({}, Zippable(snapshot))]

Did(op, id) == [op |-> op, id |-> id]

\* The files the user selects over a session, in order: a.ts, a.tsx, a
\* declaration file, s/b.js from a directory, and again.
Selection ==
    <<Item(<<>>, <<"a">> \o DotTs),
      Item(<<>>, <<"a">> \o DotTsx),
      Item(<<>>, <<"a">> \o DotDTs),
      Item(<<"s", "/">>, <<"b">> \o DotJs)>>

MainOffer == [k \in 1..(MaxIds + 1) |-> Selection[((k - 1) % Len(Selection)) + 1]]

\* The names IntakeSpec tries.
Chars == {".", "d", "t", "s", "x", "j"}
Names == UNION {[1..k -> Chars] : k \in 1..MaxNameLen}
Dirs == {<<>>, <<"s", "/">>}

\* The state after the component mounted (useState / useRef initial values).
Mounted ==
    /\ files = <<>>
    /\ isProcessing = FALSE
    /\ progress = [current |-> 0, total |-> 0]
    /\ activeWorkers = 0
    /\ workers = <<>>
    /\ queue = <<>>
    /\ jobs = {}
    /\ reading = <<>>
    /\ timers = <<>>
    /\ out = NoOut
    /\ jszip = FALSE
    /\ nextId = 1
    /\ view = [files |-> <<>>, isProcessing |-> FALSE]
    /\ enq = <<>>
    /\ posted = <<>>
    /\ done = {}
    /\ last = Did("init", NoId)

Init ==
    /\ Mounted
    /\ concurrency \in 1..MaxPool
    /\ offer = MainOffer

\* One selection of one file, of any name, alone or from a directory.
InitIntake ==
    /\ Mounted
    /\ concurrency = 1
    /\ offer \in {<<Item(d, n)>> : d \in Dirs, n \in Names}

\* handleFiles on a selection of the next n offered files: the pool is
\* created if there is none, the reads of the first chunk of eligible files
\* are started and a timer is set if more remain; if none is eligible an
\* error toast is shown.
HandleFiles(n) ==
    /\ n \in 1..Len(offer)
    /\ Install(initWorkers(Cur))
    /\ LET valid == validFiles(SubSeq(offer, 1, n)) IN
        /\ reading' = reading \o ChunkOf(valid, 0)
        /\ timers' = timers \o TimerAfter(valid, 0)
        /\ out' = IF Len(valid) = 0
                  THEN [NoOut EXCEPT !.toast = "No valid TS/JS files found"]
                  ELSE NoOut
    /\ offer' = SubSeq(offer, n + 1, Len(offer))
    /\ last' = Did("intake", NoId)
    /\ UNCHANGED <<jszip, nextId, concurrency, view, done>>

\* reader.onload of the oldest started read: append an idle record (render
\* deferred).
Onload ==
    /\ reading # <<>>
    /\ Install([Cur EXCEPT !.files = Append(@, NewRecord(nextId, Head(reading)))])
    /\ reading' = Tail(reading)
    /\ nextId' = nextId + 1
    /\ out' = NoOut
    /\ last' = Did("onload", nextId)
    /\ UNCHANGED <<offer, timers, jszip, concurrency, view, done>>

\* The timer of the oldest pending setTimeout(readNextChunk, 50) fires: the
\* reads of the next chunk are started, a timer is set if more remain.
ReadNextChunk ==
    /\ timers # <<>>
    /\ LET t == Head(timers) IN
        /\ reading' = reading \o ChunkOf(t.validFiles, t.readIndex)
        /\ timers' = Tail(timers) \o TimerAfter(t.validFiles, t.readIndex)
    /\ out' = NoOut
    /\ last' = Did("chunk", NoId)
    /\ UNCHANGED <<files, isProcessing, progress, activeWorkers, workers, queue,
                   jobs, offer, jszip, nextId, concurrency, view, enq, posted,
                   done>>

\* Click on "Start Conversion" (rendered when idleCount > 0 && !isProcessing).
Start ==
    /\ Len(IdleOf(view.files)) > 0
    /\ ~view.isProcessing
    /\ Install(handleConvert(Cur, view.files))
    /\ view' = Shown(handleConvert(OnView, view.files))
    /\ out' = NoOut
    /\ last' = Did("start", NoId)
    /\ UNCHANGED <<reading, offer, timers, jszip, nextId, concurrency, done>>

\* The result of job j reaches the main thread.  A live worker's message runs
\* handleWorkerMessage (render deferred); a terminated worker's message is
\* dropped.
Deliver(j, m) ==
    /\ j \in jobs
    /\ m \in Messages(j.id)
    /\ LET st == [Cur EXCEPT !.jobs = @ \ {j}] IN
       IF j.terminated THEN Install(st) ELSE Install(handleWorkerMessage(st, m))
    /\ done' = IF ~j.terminated /\ j.id \in Range(Ids(files)) THEN done \cup {j.id} ELSE done
    /\ last' = Did(IF j.stale THEN "stale" ELSE "result", j.id)
    /\ out' = NoOut
    /\ UNCHANGED <<reading, offer, timers, jszip, nextId, concurrency, view>>

\* Click on "Cancel Operation" (rendered while isProcessing) or "Clear All"
\* (rendered when files.length > 0).
Clear ==
    /\ view.isProcessing \/ Len(view.files) > 0
    /\ Install(handleClear(Cur))
    /\ view' = Shown(handleClear(OnView))
    /\ done' = {}
    /\ out' = NoOut
    /\ last' = Did("clear", NoId)
    /\ UNCHANGED <<reading, offer, timers, jszip, nextId, concurrency>>

\* Click on the "Remove" button of a rendered record.
Remove(id) ==
    /\ id \in Range(Ids(view.files))
    /\ Install(removeFile(Cur, id))
    /\ view' = Shown(removeFile(OnView, id))
    /\ out' = NoOut
    /\ last' = Did("remove", id)
    /\ UNCHANGED <<reading, offer, timers, jszip, nextId, concurrency, done>>

\* Click on "Download ZIP" (rendered when processedCount > 0, !isProcessing
\* and idleCount === 0): handleDownloadZip on the rendered registry.
Download ==
    /\ Len(SelectSeq(view.files, LAMBDA f : f.status = "complete")) > 0
    /\ ~view.isProcessing
    /\ Len(IdleOf(view.files)) = 0
    /\ out' = handleDownloadZip(view.files, jszip)
    /\ last' = Did("download", NoId)
    /\ UNCHANGED <<files, isProcessing, progress, activeWorkers, workers, queue,
                   jobs, reading, offer, timers, jszip, nextId, concurrency, view, enq,
                   posted, done>>

\* script.onload of the JSZip script appended at mount (lines 65-83); a
\* failed or slow load is this action not happening.
LoadScripts ==
    /\ ~jszip
    /\ jszip' = TRUE
    /\ UNCHANGED <<files, isProcessing, progress, activeWorkers, workers, queue,
                   jobs, reading, offer, timers, out, nextId, concurrency, view, enq,
                   posted, done, last>>

\* The deferred render commits the pending updates of onload / onmessage.
Render ==
    /\ view # Shown(Cur)
    /\ view' = Shown(Cur)
    /\ UNCHANGED <<files, isProcessing, progress, activeWorkers, workers, queue,
                   jobs, reading, offer, timers, out, jszip, nextId, concurrency, enq,
                   posted, done, last>>

\* The selections of MainOffer have fewer than CHUNK_SIZE files, so no timer
\* of readNextChunk is ever set here; ChunkSpec covers the chunked intake.
Next ==
    \/ \E n \in 1..(MaxIds + 1) : HandleFiles(n)
    \/ Onload
    \/ Start
    \/ \E j \in jobs : \E m \in Messages(j.id) : Deliver(j, m)
    \/ Clear
    \/ \E id \in 1..MaxIds : Remove(id)
    \/ Download
    \/ LoadScripts
    \/ Render

Spec == Init /\ [][Next]_vars

\* A session in which no reset occurs and every posted task's result is
\* eventually delivered (the worker answers every message once, lines 23-42).
NextNoReset ==
    \/ \E n \in 1..(MaxIds + 1) : HandleFiles(n)
    \/ Onload
    \/ Start
    \/ \E j \in jobs : \E m \in Messages(j.id) : Deliver(j, m)
    \/ \E id \in 1..MaxIds : Remove(id)
    \/ Download
    \/ LoadScripts
    \/ Render

FairSpec ==
    /\ Init
    /\ [][NextNoReset]_vars
    /\ WF_vars(\E j \in jobs : \E m \in Messages(j.id) : Deliver(j, m))

\* Intake alone: one selection, its read, the render of the new record.
NextIntake ==
    \/ \E n \in 1..1 : HandleFiles(n)
    \/ Onload
    \/ Render

IntakeSpec == InitIntake /\ [][NextIntake]_vars

\* A selection of n files named by their position (01.ts, 02.ts, ...),
\* every eighth one a declaration file.
Digits == <<"0", "1", "2", "3", "4", "5", "6", "7", "8", "9">>

Numbered(k) == <<Digits[(k \div 10) + 1], Digits[(k % 10) + 1]>>

ChunkOffer(n) ==
    [k \in 1..n |-> Item(<<>>, Numbered(k) \o (IF k % 8 = 0 THEN DotDTs ELSE DotTs))]

\* One selection of up to MaxSel files.
InitChunk ==
    /\ Mounted
    /\ concurrency = 1
    /\ offer \in {ChunkOffer(n) : n \in 1..MaxSel}

\* Intake of the whole selection, with no reset: handleFiles, the timers
\* of readNextChunk, the onloads.
NextChunk ==
    \/ \E n \in {Len(offer)} : HandleFiles(n)
    \/ ReadNextChunk
    \/ Onload

\* Every started read eventually completes and every set timer fires.
ChunkSpec ==
    /\ InitChunk
    /\ [][NextChunk]_vars
    /\ WF_vars(Onload)
    /\ WF_vars(ReadNextChunk)

\* The worker's answer is a function of the task it is posted (Babel on
\* the file's text): here the first task transforms to "js", the second
\* fails, the third transforms to the empty text, and again.
OutcomeOf(id) ==
    IF id % 3 = 1 THEN Success(id, "js")
    ELSE IF id % 3 = 2 THEN Failure(id, "Unexpected token")
    ELSE Success(id, "")

\* The session with these outcomes; results arrive in any order.
NextOrder ==
    \/ \E n \in 1..(MaxIds + 1) : HandleFiles(n)
    \/ Onload
    \/ Start
    \/ \E j \in jobs : Deliver(j, OutcomeOf(j.id))
    \/ Clear
    \/ \E id \in 1..MaxIds : Remove(id)
    \/ Download
    \/ LoadScripts
    \/ Render

OrderSpec == Init /\ [][NextOrder]_vars

TypeOK ==
    /\ isProcessing \in BOOLEAN
    /\ progress.current \in Nat /\ progress.total \in Nat
    /\ \A i \in 1..Len(files) : files[i].status \in {"idle", "pending", "complete"}
    /\ Len(workers) \in {0, concurrency}

\* ---- derived notions used by the properties ----

BusySlots == {i \in 1..Len(workers) : workers[i].busy}
LiveJobs == {j \in jobs : ~j.terminated}
Count(seq, x) == Cardinality({i \in 1..Len(seq) : seq[i] = x})
Increasing(seq) == \A i, k \in 1..Len(seq) : i < k => seq[i] < seq[k]
Drained == queue = <<>> /\ LiveJobs = {}

\* C1: no task id is the currentId of two busy slots, and every busy slot
\* holds a task id.
C1_NoDoubleDispatch ==
    \A i \in BusySlots :
        /\ workers[i].currentId # NoId
        /\ \A k \in BusySlots : k # i => workers[k].currentId # workers[i].currentId

\* C1 witness: two slots are busy at once.
C1_Witness == Cardinality(BusySlots) >= 2

\* C3: tasks are posted in the order they were appended to the queue: the
\* ids appended since the last reset are the ids posted so far followed by
\* the ids still queued, and they were appended in registry order.
C3_FIFO == enq = posted \o queue /\ Increasing(enq)

\* C3 witness: pool size 1, three tasks enqueued together and posted in order.
C3_Witness == concurrency = 1 /\ posted = <<1, 2, 3>> /\ progress.total = 3

\* C4 as stated: once the run has drained, every task that start enqueued
\* has reached status complete.
IsComplete(id) == \E i \in 1..Len(files) : files[i].id = id /\ files[i].status = "complete"
InRegistry(id) == \E i \in 1..Len(files) : files[i].id = id

C4_AllEnqueuedComplete ==
    Drained => \A id \in Range(enq) : id \in done

\* C4, the part that holds: with no reset and every result delivered, a
\* started run eventually reaches a state where the queue is empty, every
\* slot is free, isProcessing is false and every enqueued task still in the
\* registry is complete.
AllDone ==
    /\ queue = <<>>
    /\ BusySlots = {}
    /\ ~isProcessing
    /\ \A id \in Range(enq) : InRegistry(id) => IsComplete(id)

C4_EventualDraining == (enq # <<>>) ~> AllDone

\* C4 witness: a run of more tasks than slots has drained and left complete
\* records.
C4_Witness ==
    /\ AllDone
    /\ Len(enq) > concurrency
    /\ \A id \in Range(enq) : IsComplete(id)

\* C5: when the queue is empty and no result is outstanding, current equals
\* total and no slot is busy.
C5_TerminalSummary ==
    Drained => progress.current = progress.total /\ BusySlots = {}

\* C5 witness: a run of two tasks has drained.
C5_Witness == Drained /\ progress.total >= 2 /\ last.op = "result"

\* C2: between two resets every task id is posted at most once, and every
\* record that start moved out of idle is waiting in the queue or has been
\* posted exactly once.
C2_ExactlyOnce ==
    /\ \A id \in 1..MaxIds : Count(posted, id) <= 1
    /\ \A i \in 1..Len(files) :
          files[i].status # "idle" =>
              Count(queue, files[i].id) + Count(posted, files[i].id) = 1

\* C6: delivering the result of an outstanding task twice leaves the
\* registry, the progress counters, the slot table and activeWorkers as
\* delivering it once does.
Observed(st) == <<st.files, st.progress, st.workers, st.activeWorkers>>

C6_Idempotent ==
    \A j \in LiveJobs : \A m \in Messages(j.id) :
        LET once == handleWorkerMessage([Cur EXCEPT !.jobs = @ \ {j}], m)
        IN Observed(handleWorkerMessage(once, m)) = Observed(once)

\* C7: the arrival of a result for a task dispatched before a reset changes
\* neither the registry, nor the progress counters, nor the slot table,
\* nor isProcessing.
C7_StaleIgnored ==
    [][(last'.op = "stale" /\ jobs' # jobs) =>
          UNCHANGED <<files, progress, workers, isProcessing, activeWorkers, queue>>]_vars

\* C7 witness: a stale result has arrived while the new session has records
\* and a busy slot.
C7_Witness == last.op = "stale" /\ Len(files) > 0 /\ BusySlots # {}

\* C8: the status of a record never moves backwards along
\* idle < queued < running < complete, a record becomes complete only from
\* running (never from idle or queued), and a complete record stays complete.
Rank(f, ws) ==
    CASE f.status = "idle" -> 0
      [] f.status = "pending" -> IF FindHolder(ws, f.id) # 0 THEN 2 ELSE 1
      [] f.status = "complete" -> 3

C8_Monotonic ==
    [][\A i \in 1..Len(files) : \A k \in 1..Len(files') :
          files[i].id = files'[k].id =>
              /\ Rank(files'[k], workers') >= Rank(files[i], workers)
              /\ (Rank(files'[k], workers') = 3 => Rank(files[i], workers) >= 2)]_vars

\* C8 witness: a registry holding a complete, a running and a queued record.
C8_Witness ==
    /\ \E i \in 1..Len(files) : Rank(files[i], workers) = 3
    /\ \E i \in 1..Len(files) : Rank(files[i], workers) = 2
    /\ \E i \in 1..Len(files) : Rank(files[i], workers) = 1

\* C9: a complete record has exactly one of output content and error set,
\* and a record that is not complete has neither.
C9_OutputXorError ==
    \A i \in 1..Len(files) :
        IF files[i].status = "complete"
        THEN (files[i].content # Null) # (files[i].error # Null)
        ELSE files[i].content = Null /\ files[i].error = Null

\* C9 witness: one record completed with the empty text, another with an error.
C9_Witness ==
    /\ \E i \in 1..Len(files) :
          files[i].status = "complete" /\ files[i].content = "" /\ files[i].error = Null
    /\ \E i \in 1..Len(files) :
          files[i].status = "complete" /\ files[i].error \in Errors /\ files[i].content = Null

\* C10: the number of busy slots equals the number of records that were
\* dispatched and are not yet complete.
RunningRecords ==
    {i \in 1..Len(files) : files[i].status = "pending" /\ Count(posted, files[i].id) > 0}

C10_BusyEqualsRunning == Cardinality(BusySlots) = Cardinality(RunningRecords)

\* C11: each id occurs at most once in the dispatch queue, and every queued
\* id belongs to a registry record that is pending and held by no slot.
C11_QueueInvariant ==
    \A k \in 1..Len(queue) :
        /\ Count(queue, queue[k]) = 1
        /\ \E i \in 1..Len(files) :
              /\ files[i].id = queue[k]
              /\ files[i].status = "pending"
              /\ FindHolder(workers, queue[k]) = 0

\* C12: the queue is never non-empty while a slot is free; with pool size 2
\* and three tasks started, two run and the third is queued, and it runs at
\* the end of the handler of the first completion.
FreeSlots == {i \in 1..Len(workers) : ~workers[i].busy}

C12_Saturation == queue # <<>> => FreeSlots = {}

\* C12 witness: pool size 2, three tasks started, the first completion has
\* been handled and the third task is running.
C12_Witness ==
    /\ concurrency = 2
    /\ enq = <<1, 2, 3>>
    /\ posted = <<1, 2, 3>>
    /\ last.op = "result"
    /\ progress = [current |-> 1, total |-> 3]
    /\ FreeSlots = {}

\* C13: a reset ends with an empty registry, an empty queue, zero counters,
\* isProcessing false, activeWorkers 0 and a pool of as many slots as before,
\* all free.
C13_Reset ==
    [][(last'.op = "clear" /\ last.op # "clear") =>
          /\ files' = <<>>
          /\ queue' = <<>>
          /\ progress' = [current |-> 0, total |-> 0]
          /\ ~isProcessing'
          /\ activeWorkers' = 0
          /\ Len(workers') = Len(workers)
          /\ Len(workers') = concurrency
          /\ AllFree(workers')]_vars

\* C13 witness: the state after a reset that interrupted two running tasks.
C13_Witness ==
    /\ last.op = "clear"
    /\ Cardinality({j \in jobs : j.stale /\ j.terminated}) = 2
    /\ nextId = 4

\* C14: a failure with description e completes the task's record with
\* error e and null output, changes no other record, adds one to
\* progress.current, frees the slot, does not retry the task, and leaves the
\* queue, the slots, the posted tasks and the counters exactly as a success
\* of the same task does.
C14_FailureIsolation ==
    \A j \in LiveJobs : \A e \in Errors : \A c \in Contents :
        LET st == [Cur EXCEPT !.jobs = @ \ {j}]
            f == handleWorkerMessage(st, Failure(j.id, e))
            s == handleWorkerMessage(st, Success(j.id, c))
        IN /\ Len(f.files) = Len(files)
           /\ \A i \in 1..Len(files) :
                 f.files[i] = IF files[i].id = j.id
                              THEN [files[i] EXCEPT !.status = "complete",
                                                    !.error = e, !.content = Null]
                              ELSE files[i]
           /\ f.progress = [current |-> progress.current + 1, total |-> progress.total]
           /\ FindHolder(f.workers, j.id) = 0
           /\ Count(f.queue, j.id) = 0 /\ \A x \in f.jobs : x.id # j.id
           /\ f.queue = s.queue /\ f.workers = s.workers /\ f.jobs = s.jobs
           /\ f.posted = s.posted /\ f.progress = s.progress
           /\ f.isProcessing = s.isProcessing /\ f.activeWorkers = s.activeWorkers

\* C14 witness: pool size 1; the first task failed with "Unexpected token",
\* the task queued behind it was dispatched and completed.
C14_Witness ==
    /\ concurrency = 1
    /\ posted = <<1, 2>>
    /\ \E i \in 1..Len(files) :
          /\ files[i].id = 1 /\ files[i].status = "complete"
          /\ files[i].error = "Unexpected token" /\ files[i].content = Null
    /\ \E i \in 1..Len(files) :
          files[i].id = 2 /\ files[i].status = "complete" /\ files[i].content = "js"

\* C15: isProcessing is true exactly when some record is queued or running,
\* and the summary is shown exactly when no record is idle, queued or
\* running and some record is complete.
idleCount == Len(IdleOf(files))
processedCount == Len(SelectSeq(files, LAMBDA f : f.status = "complete"))
pendingCount == Len(SelectSeq(files, LAMBDA f : f.status = "pending"))
SummaryShown == processedCount > 0 /\ ~isProcessing /\ idleCount = 0

C15_Indicators ==
    /\ isProcessing <=> pendingCount > 0
    /\ SummaryShown <=> (idleCount = 0 /\ pendingCount = 0 /\ processedCount > 0)

\* The records that completed without error.
Successful(fs) ==
    {fs[i] : i \in {k \in 1..Len(fs) : fs[k].status = "complete" /\ fs[k].error = Null}}

\* A step of handleDownloadZip (a repeated click that changes nothing is a
\* stuttering step).
DownloadStep == last'.op = "download" /\ UNCHANGED <<view, jszip>>

\* C16: an archive saved by handleDownloadZip holds exactly one entry
\* (target path, output text) for every rendered record that is complete
\* with error = null, whatever its output text, and nothing else.
C16_ExportSelection ==
    [][(DownloadStep /\ out'.saved) =>
          out'.zip = {[path |-> f.newPath, content |-> f.content] :
                        f \in Successful(view.files)}]_vars

\* C17: an export invoked while no rendered record is complete with
\* error = null shows the failure toast, saves no archive and leaves the
\* registry, the queue, the slots and the counters as they were.
C17_ExportFails ==
    [][(DownloadStep /\ Successful(view.files) = {}) =>
          /\ out'.toast = "No valid files to zip"
          /\ ~out'.saved
          /\ UNCHANGED <<files, queue, workers, progress, isProcessing,
                         activeWorkers>>]_vars

\* The names the intake filter is stated to accept: a source extension at
\* the end, and not the declaration suffix at the end.
Eligible(name) == MatchesExt(name) /\ ~EndsWith(name, DotDTs)

\* C18: handleFiles starts a read (hence creates a record) for exactly the
\* selected files whose name ends with .ts, .tsx, .jsx or .js and does not
\* end with .d.ts.
C18_IntakeFilter ==
    [][(last'.op = "intake" /\ offer' # offer) =>
          reading' = reading \o
              SelectSeq(SubSeq(offer, 1, Len(offer) - Len(offer')),
                        LAMBDA f : Eligible(f.name))]_vars

\* A name or path with only its trailing source extension replaced by .js.
Remapped(s) ==
    IF EndsWith(s, DotTsx) THEN ReplaceEnd(s, DotTsx, DotJs)
    ELSE IF EndsWith(s, DotJsx) THEN ReplaceEnd(s, DotJsx, DotJs)
    ELSE IF EndsWith(s, DotTs) THEN ReplaceEnd(s, DotTs, DotJs)
    ELSE s

\* C19: every record's target name and target path are its original name
\* and path with only the trailing .ts / .tsx / .jsx replaced by .js, the
\* target name is the last segment of the target path, and a .js item keeps
\* its name and path.
C19_Remapping ==
    \A i \in 1..Len(files) :
        /\ files[i].newName = Remapped(files[i].originalName)
        /\ files[i].newPath = Remapped(files[i].originalPath)
        /\ files[i].newName = LastSegment(files[i].newPath)
        /\ EndsWith(files[i].originalName, DotJs) =>
              /\ files[i].newName = files[i].originalName
              /\ files[i].newPath = files[i].originalPath

\* C20: an intake step (handleFiles, onload) changes neither the queue, nor
\* an existing slot, nor the counters, nor an existing record, and the
\* records it appends are idle; a record leaves idle only in a start step;
\* a completion handler neither enqueues nor dispatches an idle record.
C20_ExplicitStart ==
    [][/\ last'.op \in {"intake", "onload"} =>
            /\ queue' = queue /\ progress' = progress
            /\ \A i \in 1..Len(workers) : workers'[i] = workers[i]
            /\ Len(files') >= Len(files)
            /\ \A i \in 1..Len(files) : files'[i] = files[i]
            /\ \A i \in (Len(files) + 1)..Len(files') : files'[i].status = "idle"
       /\ \A i \in 1..Len(files) : \A k \in 1..Len(files') :
            (files[i].id = files'[k].id /\ files[i].status = "idle"
               /\ files'[k].status # "idle") => last'.op = "start"
       /\ last'.op \in {"result", "stale"} =>
            \A i \in 1..Len(files) :
                files[i].status = "idle" =>
                    files[i].id \notin (Range(queue') \cup Range(posted'))]_vars

\* C20 witness: a record has been taken in while a task is running, it is
\* idle, and a completion has been handled since.
C20_Witness ==
    /\ last.op = "result"
    /\ \E i \in 1..Len(files) : files[i].status = "idle" /\ files[i].id > 1
    /\ \E i \in 1..Len(files) : files[i].status = "pending"
    /\ BusySlots # {}

\* The busy slots whose currentId is the task id.
HoldersOf(id) == {k \in BusySlots : workers[k].currentId = id}

\* C21: every record that is neither idle nor complete is in the dispatch
\* queue or held by exactly one busy slot, also when an onload appends an
\* idle record between the render handleConvert reads and its status update.
C21_NoLostTask ==
    \A i \in 1..Len(files) :
        files[i].status \notin {"idle", "complete"} =>
            \/ files[i].id \in Range(queue)
            \/ Cardinality(HoldersOf(files[i].id)) = 1

\* The displayed percentage: Math.round(current / total * 100), 0 when
\* total is 0 (Math.round rounds a half up).
getProgressPercentage ==
    IF progress.total = 0 THEN 0
    ELSE (200 * progress.current + progress.total) \div (2 * progress.total)

\* C22: total = current + queue length + busy slots; hence
\* 0 <= current <= total and the percentage is within 0..100.
C22_ProgressConservation ==
    /\ progress.total = progress.current + Len(queue) + Cardinality(BusySlots)
    /\ 0 <= progress.current /\ progress.current <= progress.total
    /\ getProgressPercentage \in 0..100

\* C22 witness: a record was just removed while one task is complete, one
\* is running and one is queued.
C22_Witness ==
    /\ last.op = "remove"
    /\ progress.current >= 1
    /\ queue # <<>>
    /\ BusySlots # {}

\* C23: once a reset has run, the registry stays empty until a new intake
\* is started: no event that follows the reset before any other handler
\* (in particular no onload of a read started before it) appends a record.
C23_ResetAbandonsIntake ==
    [][last.op = "clear" => files' = <<>>]_vars

\* C24: with fixed outcomes, whatever the order in which the results
\* arrived, once the queue has drained every dispatched task's record holds
\* the outcome of its own task id, every slot is free and the counters
\* count the dispatched tasks.
C24_OrderIndependence ==
    Drained =>
        /\ \A i \in 1..Len(files) :
              files[i].id \in Range(posted) =>
                  files[i] = Completed([files[i] EXCEPT !.content = Null,
                                                        !.error = Null,
                                                        !.status = "pending"],
                                       OutcomeOf(files[i].id))
        /\ progress = [current |-> Len(posted), total |-> Len(posted)]
        /\ AllFree(workers)
        /\ activeWorkers = 0

\* C24 witness: two tasks ran side by side and the result of the task
\* dispatched first arrived last.
C24_Witness ==
    /\ Drained
    /\ concurrency = 2
    /\ Len(posted) >= 2 /\ posted[1] = 1
    /\ last = Did("result", 1)
    /\ \E i \in 1..Len(files) : files[i].id = 2 /\ files[i].error # Null

\* C25: a saved archive has one entry per record added to it: no two
\* added records share an entry path, so the number of entries equals
\* addedCount.
C25_ExportOneToOne ==
    [][(DownloadStep /\ out'.saved) =>
          /\ Cardinality(out'.zip) = Len(Zippable(view.files))
          /\ \A i, k \in 1..Len(Zippable(view.files)) :
                i # k => Zippable(view.files)[i].newPath # Zippable(view.files)[k].newPath]_vars

\* The files a pending timer's readNextChunk chain has yet to read.
RECURSIVE RestOfAll(_)
RestOfAll(ts) ==
    IF ts = <<>> THEN <<>>
    ELSE Slice(Head(ts).validFiles, Head(ts).readIndex, Len(Head(ts).validFiles))
           \o RestOfAll(Tail(ts))

\* The eligible items of the selection not yet turned into records: not
\* yet selected, awaiting a later chunk, or being read.
Outstanding == reading \o RestOfAll(timers) \o validFiles(offer)

\* The names of the eligible items accounted for, as records or outstanding.
AccountedNames ==
    {files[i].originalName : i \in 1..Len(files)}
        \cup {Outstanding[i].name : i \in 1..Len(Outstanding)}

AccountedCount == Len(files) + Len(Outstanding)

IntakeFinished == offer = <<>> /\ timers = <<>> /\ reading = <<>>

\* C26: intake starts at most CHUNK_SIZE reads per step (handleFiles or a
\* timer), no eligible item is skipped or duplicated at any step, a record
\* is appended only by the onload of a started read and is idle with null
\* output and null error, and once the selection is made intake finishes:
\* then the records are exactly the eligible items, one each.
C26_ChunkedIntake ==
    /\ [][/\ Len(reading') <= Len(reading) + CHUNK_SIZE
          /\ AccountedNames' = AccountedNames
          /\ AccountedCount' = AccountedCount
          /\ files' # files =>
                /\ last'.op = "onload"
                /\ Len(files') = Len(files) + 1
                /\ Len(reading') = Len(reading) - 1
                /\ \E k \in 1..Len(reading) :
                      files'[Len(files')].originalName = reading[k].name
                /\ \A k \in 1..Len(files) : files'[k] = files[k]]_vars
    /\ [](\A i \in 1..Len(files) :
            /\ files[i].status = "idle"
            /\ files[i].content = Null
            /\ files[i].error = Null)
    /\ [](Cardinality(AccountedNames) = AccountedCount)
    /\ (offer = <<>>) ~> IntakeFinished

\* C26 witness: an intake of more than two chunks has finished.
C26_Witness ==
    /\ IntakeFinished
    /\ Len(files) > 2 * CHUNK_SIZE
    /\ last.op = "onload"

====
